---- MODULE Spec2Model ----
(***************************************************************************)
(* State-machine model of scripts/xlwings_bridge.py: the command-dispatch  *)
(* bridge between a caller and a desktop spreadsheet host application.     *)
(*                                                                         *)
(* One process run of main() is one action; the host application keeps its *)
(* state (running instances, open documents, unsaved edits, files on disk) *)
(* between runs.  Every host call a handler makes is a step of an          *)
(* interpreter over a handler state `s`: it is logged, it may raise (the   *)
(* host refuses it, or the fault chosen for this run hits it), and once an *)
(* exception is pending every later call of the try block is skipped.      *)
(***************************************************************************)
EXTENDS Integers, Sequences, FiniteSets, TLC

VARIABLES
    apps,       \* number of running host application instances
    books,      \* documents open in the host
    active,     \* the host's active document, or NoDoc
    mem,        \* per document: the host's in-memory copy, or Closed
    disk,       \* per document: the contents of the file on disk
    installed,  \* whether `import xlwings` succeeds in this environment
    pc,         \* "idle": no bridge process; "exited": a run of main() is over
    argv,       \* the command line of the last run
    stdout,     \* the objects the last run printed, in order
    uncaught,   \* the exception that escaped main() in the last run, or NoExc
    log,        \* the host calls the last run made, in order
    runs,       \* bridge runs started in this session
    rt          \* round-trip scenario: stage, addressed range, payloads read

hostVars == <<apps, books, active, mem, disk>>
runVars == <<pc, argv, stdout, uncaught, log>>
vars == <<apps, books, active, mem, disk, installed, pc, argv, stdout, uncaught, log, runs, rt>>

(***************************************************************************)
(* Bounds of the model.                                                    *)
(***************************************************************************)
MaxRuns == 1        \* bridge runs in one session
MaxApps == 2        \* host instances that may run at once
MaxCharts == 1      \* charts a sheet may hold
GridRows == 2       \* tracked window of every sheet: rows 1..GridRows
GridCols == 2       \*                              columns A.. (GridCols of them)
MaxSide == 2        \* rows and columns of a value the host hands to the normalisation

(***************************************************************************)
(* Python values: None, scalars (text, numbers, booleans) and lists.       *)
(***************************************************************************)
None == [t |-> "none"]
Absent == [t |-> "absent"]              \* a key the parameter bag does not hold
PyStr(v) == [t |-> "str", v |-> v]
PyBool(b) == [t |-> "bool", v |-> b]
PyDate(v) == [t |-> "date", v |-> v]    \* a datetime, as the host gives for date cells
PyList(items) == [t |-> "list", items |-> items]

\* isinstance(x, list)
IsList(x) == x.t = "list"

\* Python truth value, as `if file_path:`, `if sheet`, `if save:`, `if data` use it
Truthy(x) ==
    CASE x.t = "none" -> FALSE
      [] x.t = "bool" -> x.v
      [] x.t = "str" -> x.v # ""
      [] x.t = "date" -> TRUE
      [] x.t = "list" -> x.items # <<>>

\* repr(x), and str(x) as `str(rng.value)` builds it: a string, never a list
RECURSIVE ReprItems(_, _)
RECURSIVE Repr(_)
ReprItems(items, i) ==
    IF i > Len(items) THEN ""
    ELSE (IF i > 1 THEN ", " ELSE "") \o Repr(items[i]) \o ReprItems(items, i + 1)
Repr(x) ==
    CASE x.t = "none" -> "None"
      [] x.t = "bool" -> IF x.v THEN "True" ELSE "False"
      [] x.t = "str" -> "'" \o x.v \o "'"
      [] x.t = "date" -> "datetime(" \o x.v \o ")"
      [] x.t = "list" -> "[" \o ReprItems(x.items, 1) \o "]"
PyStrOf(x) ==
    PyStr(CASE x.t = "str" -> x.v
            [] x.t = "date" -> x.v \o " 00:00:00"
            [] OTHER -> Repr(x))

\* json.dumps(..., default=str) of a value: what JSON cannot hold goes through str()
RECURSIVE JsonValue(_)
JsonValue(x) ==
    CASE x.t = "date" -> PyStrOf(x)
      [] x.t = "list" -> PyList([i \in 1..Len(x.items) |-> JsonValue(x.items[i])])
      [] OTHER -> x

(***************************************************************************)
(* The host application: files, sheets, cells, charts.                     *)
(***************************************************************************)
Docs == {"a.xlsx", "b.xlsx"}
NoDoc == "<none>"
Closed == [closed |-> TRUE]
NoExc == [type |-> "none", msg |-> ""]

\* A document's sheets, in the document's own order; the first is its active sheet
DocSheets(d) == IF d = "a.xlsx" THEN <<"Sheet1", "Data">> ELSE <<"Data", "Sheet1">>

Seq2Set(q) == {q[i] : i \in 1..Len(q)}

EmptyGrid == [r \in 1..GridRows |-> [c \in 1..GridCols |-> None]]
NumGrid(k) == [r \in 1..GridRows |-> [c \in 1..GridCols |->
                  IF r = 2 /\ c = 2 THEN PyDate("2024-01-02")
                  ELSE PyStr(k \o "!" \o ToString(r) \o "," \o ToString(c))]]

InitContent(d) ==
    [cells |-> [n \in Seq2Set(DocSheets(d)) |->
                   IF n = "Sheet1" THEN NumGrid(d) ELSE EmptyGrid],
     charts |-> [n \in Seq2Set(DocSheets(d)) |-> <<>>]]

\* a document with an edit the user has not saved
Edited(content, d) ==
    [content EXCEPT !.cells[DocSheets(d)[1]][1][1] = PyStr("unsaved")]

\* Range addresses the model knows; anything else is not an address for the host
Box(r1, c1, r2, c2) == [r1 |-> r1, c1 |-> c1, r2 |-> r2, c2 |-> c2]
Addr == ("A1" :> Box(1, 1, 1, 1)) @@ ("B2" :> Box(2, 2, 2, 2)) @@
        ("A1:B1" :> Box(1, 1, 1, 2)) @@ ("A1:A2" :> Box(1, 1, 2, 1)) @@
        ("A1:B2" :> Box(1, 1, 2, 2)) @@
        ("E1" :> Box(1, 5, 1, 5)) @@ ("A1:B10" :> Box(1, 1, 10, 2))
ValidAddr(a) == a \in DOMAIN Addr
RowsOf(a) == Addr[a].r2 - Addr[a].r1 + 1
ColsOf(a) == Addr[a].c2 - Addr[a].c1 + 1

(***************************************************************************)
(* Host calls.  `s` is the state of a handler's try block: the host, the   *)
(* call log, the pending exception, the value the last call returned and   *)
(* the host call chosen to fail in this run (`fault`, a call name or       *)
(* "none") with the encoding the host uses for range values (`shape`).     *)
(***************************************************************************)
HostError(call) == [type |-> "Exception", msg |-> "host: " \o call \o " failed"]
FileNotFound == [type |-> "Exception", msg |-> "host: no such file"]
SheetNotFound == [type |-> "Exception", msg |-> "host: no such sheet"]
BadAddress == [type |-> "Exception", msg |-> "host: not a range address"]
BadShape == [type |-> "Exception", msg |-> "host: data is not rectangular"]
NoSuchMacro == [type |-> "Exception", msg |-> "host: macro not found"]
MacroError == [type |-> "Exception", msg |-> "host: macro raised a runtime error"]

Start(fault, shape) ==
    [apps |-> apps, books |-> books, active |-> active, mem |-> mem, disk |-> disk,
     log |-> <<>>, exc |-> NoExc, ret |-> None, fault |-> fault, shape |-> shape]

Pending(s) == s.exc # NoExc
Entry(call, launch, e) == [call |-> call, launch |-> launch, exc |-> e]
Ok(s, call) == [s EXCEPT !.log = Append(@, Entry(call, FALSE, NoExc))]
Raise(s, call, e) == [s EXCEPT !.log = Append(@, Entry(call, FALSE, e)), !.exc = e]
\* the frame every host call shares: skipped once an exception is pending,
\* raising when it is the call chosen to fail
Call(s, call, done) ==
    IF Pending(s) THEN s
    ELSE IF s.fault = call THEN Raise(s, call, HostError(call))
    ELSE done

BookHandle(d) == [t |-> "book", doc |-> d]
SheetHandle(d, n) == [t |-> "sheet", doc |-> d, name |-> n]
RangeHandle(d, n, a) == [t |-> "range", doc |-> d, sheet |-> n, addr |-> a]

\* xw.Book(file_path): attach to the document if it is open, else open it from
\* disk, starting a host instance when none runs
xwBook(s, file_path) ==
    Call(s, "Book",
        LET p == file_path.v
            launch == s.apps = 0
            started == [s EXCEPT !.apps = IF launch THEN 1 ELSE @]
        IN  IF p \notin Docs
            THEN [started EXCEPT !.log = Append(@, Entry("Book", launch, FileNotFound)),
                                 !.exc = FileNotFound]
            ELSE IF p \in s.books
            THEN [Ok(s, "Book") EXCEPT !.ret = BookHandle(p)]
            ELSE [started EXCEPT !.log = Append(@, Entry("Book", launch, NoExc)),
                                 !.books = @ \cup {p},
                                 !.active = p,
                                 !.mem[p] = s.disk[p],
                                 !.ret = BookHandle(p)])

\* xw.books.active: the active document, None when no document is open
booksActive(s) ==
    IF Pending(s) THEN s
    ELSE [Ok(s, "books.active") EXCEPT
              !.ret = IF s.active = NoDoc THEN None ELSE BookHandle(s.active)]

\* a lookup that falls back to the active sheet when the name is unknown
wbSheetsLenient(s, wb, sheet) ==
    Call(s, "sheets",
        IF Truthy(sheet) /\ sheet.v \in Seq2Set(DocSheets(wb.doc))
        THEN [Ok(s, "sheets") EXCEPT !.ret = SheetHandle(wb.doc, sheet.v)]
        ELSE [Ok(s, "sheets") EXCEPT !.ret = SheetHandle(wb.doc, DocSheets(wb.doc)[1])])

\* wb.sheets[sheet] if sheet else wb.sheets.active
wbSheets(s, wb, sheet) ==
    Call(s, "sheets",
        IF Truthy(sheet)
        THEN IF sheet.v \in Seq2Set(DocSheets(wb.doc))
             THEN [Ok(s, "sheets") EXCEPT !.ret = SheetHandle(wb.doc, sheet.v)]
             ELSE Raise(s, "sheets", SheetNotFound)
        ELSE [Ok(s, "sheets") EXCEPT !.ret = SheetHandle(wb.doc, DocSheets(wb.doc)[1])])

\* ws.range(addr)
wsRange(s, ws, addr) ==
    Call(s, "range",
        IF addr.t = "str" /\ ValidAddr(addr.v)
        THEN [Ok(s, "range") EXCEPT !.ret = RangeHandle(ws.doc, ws.name, addr.v)]
        ELSE Raise(s, "range", BadAddress))

Cell(s, rng, r, c) == s.mem[rng.doc].cells[rng.sheet][Addr[rng.addr].r1 + r - 1][Addr[rng.addr].c1 + c - 1]
RowList(s, rng, r) == PyList([c \in 1..ColsOf(rng.addr) |-> Cell(s, rng, r, c)])
ColList(s, rng, c) == PyList([r \in 1..RowsOf(rng.addr) |-> Cell(s, rng, r, c)])
Nested(s, rng) == PyList([r \in 1..RowsOf(rng.addr) |-> RowList(s, rng, r)])

\* The host's encodings of a range's cells: "native" gives a bare scalar for one
\* cell, a flat list for one row or one column and a nested list for a block;
\* "flat" gives a flat list for one cell too; "nested" is always a list of rows
Shapes == {"native", "flat", "nested"}
Encoded(s, rng) ==
    LET rows == RowsOf(rng.addr)
        cols == ColsOf(rng.addr)
    IN  CASE s.shape = "nested" -> Nested(s, rng)
          [] rows = 1 /\ cols = 1 /\ s.shape = "native" -> Cell(s, rng, 1, 1)
          [] rows = 1 -> RowList(s, rng, 1)
          [] cols = 1 -> ColList(s, rng, 1)
          [] OTHER -> Nested(s, rng)

\* rng.value (get)
rngValue(s, rng) ==
    Call(s, "value", [Ok(s, "value") EXCEPT !.ret = Encoded(s, rng)])

\* the grid a value assignment covers, as rows of cells, or <<>> when the data
\* is a list the host cannot lay out
IsFlat(d) == IsList(d) /\ \A i \in 1..Len(d.items) : ~IsList(d.items[i])
IsRect(d) == /\ IsList(d) /\ d.items # <<>>
             /\ \A i \in 1..Len(d.items) :
                   /\ IsFlat(d.items[i])
                   /\ Len(d.items[i].items) = Len(d.items[1].items)
Layout(d, rng) ==
    CASE ~IsList(d) -> [r \in 1..RowsOf(rng.addr) |-> [c \in 1..ColsOf(rng.addr) |-> d]]
      [] IsFlat(d) -> <<d.items>>
      [] IsRect(d) -> [r \in 1..Len(d.items) |-> d.items[r].items]
      [] OTHER -> <<>>

\* rng.value = data: a scalar fills the range, a list is laid out from the
\* range's top-left cell (cells outside the tracked window are not recorded)
rngSetValue(s, rng, data) ==
    Call(s, "value=",
        LET lay == Layout(data, rng)
            r0 == Addr[rng.addr].r1
            c0 == Addr[rng.addr].c1
            old == s.mem[rng.doc].cells[rng.sheet]
            new == [r \in 1..GridRows |-> [c \in 1..GridCols |->
                       IF /\ r - r0 + 1 \in 1..Len(lay)
                          /\ c - c0 + 1 \in 1..Len(lay[r - r0 + 1])
                       THEN lay[r - r0 + 1][c - c0 + 1]
                       ELSE old[r][c]]]
        IN  IF IsList(data) /\ ~IsFlat(data) /\ ~IsRect(data)
            THEN Raise(s, "value=", BadShape)
            ELSE [Ok(s, "value=") EXCEPT !.mem[rng.doc].cells[rng.sheet] = new])

\* wb.save(): the in-memory copy replaces the file
wbSave(s, wb) ==
    Call(s, "save", [Ok(s, "save") EXCEPT !.disk[wb.doc] = s.mem[wb.doc]])

\* wb.close(): the document leaves the host and its unsaved edits are dropped
wbClose(s, wb) ==
    Call(s, "close",
        LET left == s.books \ {wb.doc}
        IN  [Ok(s, "close") EXCEPT
                !.books = left,
                !.mem[wb.doc] = Closed,
                !.active = IF s.active # wb.doc THEN s.active
                           ELSE IF left = {} THEN NoDoc
                           ELSE CHOOSE d \in left : TRUE])

\* wb.name, ws.name
objName(s, obj) ==
    Call(s, "name",
        [Ok(s, "name") EXCEPT !.ret = PyStr(IF obj.t = "book" THEN obj.doc ELSE obj.name)])

\* rng.rows.count, rng.columns.count
rowsCount(s, rng) ==
    Call(s, "rows.count", [Ok(s, "rows.count") EXCEPT !.ret = RowsOf(rng.addr)])
columnsCount(s, rng) ==
    Call(s, "columns.count", [Ok(s, "columns.count") EXCEPT !.ret = ColsOf(rng.addr)])

\* wb.fullname
wbFullname(s, wb) ==
    Call(s, "fullname", [Ok(s, "fullname") EXCEPT !.ret = PyStr("/docs/" \o wb.doc)])

\* wb.sheets, iterated: the document's sheets in its own order
wbSheetsIter(s, wb) ==
    Call(s, "sheets",
        [Ok(s, "sheets") EXCEPT
            !.ret = [i \in 1..Len(DocSheets(wb.doc)) |-> SheetHandle(wb.doc, DocSheets(wb.doc)[i])]])

\* wb.sheets.active
wbSheetsActive(s, wb) ==
    Call(s, "sheets", [Ok(s, "sheets") EXCEPT !.ret = SheetHandle(wb.doc, DocSheets(wb.doc)[1])])

\* ws.used_range: from A1 to the last row and last column holding a value
ColumnLetters == <<"A", "B", "C", "D">>
Max(S) == CHOOSE x \in S : \A y \in S : y <= x
UsedRows(g) == Max({1} \cup {r \in 1..GridRows : \E c \in 1..GridCols : g[r][c] # None})
UsedCols(g) == Max({1} \cup {c \in 1..GridCols : \E r \in 1..GridRows : g[r][c] # None})
wsUsedRange(s, ws) ==
    Call(s, "used_range",
        LET g == s.mem[ws.doc].cells[ws.name]
        IN  [Ok(s, "used_range") EXCEPT
                !.ret = [t |-> "used", rows |-> UsedRows(g), cols |-> UsedCols(g)]])
\* used_range.address, used_range.rows.count, used_range.columns.count
usedAddress(s, u) ==
    Call(s, "address",
        [Ok(s, "address") EXCEPT
            !.ret = PyStr("$A$1:$" \o ColumnLetters[u.cols] \o "$" \o ToString(u.rows))])
usedRowsCount(s, u) ==
    Call(s, "rows.count", [Ok(s, "rows.count") EXCEPT !.ret = u.rows])
usedColumnsCount(s, u) ==
    Call(s, "columns.count", [Ok(s, "columns.count") EXCEPT !.ret = u.cols])

\* wb.macro(name): a handle, not yet looked up in the document
wbMacro(s, wb, name) ==
    Call(s, "macro", [Ok(s, "macro") EXCEPT !.ret = [t |-> "macro", doc |-> wb.doc, name |-> name]])

\* macro(*args): every document holds the macros Fill (writes the first cell
\* of the document's first sheet, returns its first argument or None) and
\* Boom (raises); any other name is unknown to the host
macroRun(s, m, passed) ==
    Call(s, "macro()",
        CASE m.name = PyStr("Fill") ->
                 [Ok(s, "macro()") EXCEPT
                     !.mem[m.doc].cells[DocSheets(m.doc)[1]][1][1] = PyStr("filled"),
                     !.ret = IF passed = <<>> THEN None ELSE passed[1]]
          [] m.name = PyStr("Boom") -> Raise(s, "macro()", MacroError)
          [] OTHER -> Raise(s, "macro()", NoSuchMacro))

\* range.left, range.top
rngLeft(s, rng) == Call(s, "left", [Ok(s, "left") EXCEPT !.ret = Addr[rng.addr].c1])
rngTop(s, rng) == Call(s, "top", [Ok(s, "top") EXCEPT !.ret = Addr[rng.addr].r1])

\* ws.charts.add(left, top): a new chart of the host's default type
DefaultChart == [chart_type |-> "column_clustered", source |-> "", title |-> ""]
chartsAdd(s, ws) ==
    Call(s, "charts.add",
        [Ok(s, "charts.add") EXCEPT
            !.mem[ws.doc].charts[ws.name] = Append(@, DefaultChart),
            !.ret = [t |-> "chart", doc |-> ws.doc, sheet |-> ws.name,
                     i |-> Len(s.mem[ws.doc].charts[ws.name]) + 1]])
\* chart.set_source_data(range), chart.chart_type = ct, chart.api title
chartSetSource(s, ch, rng) ==
    Call(s, "set_source_data",
        [Ok(s, "set_source_data") EXCEPT !.mem[ch.doc].charts[ch.sheet][ch.i].source = rng.addr])
chartSetType(s, ch, ct) ==
    Call(s, "chart_type=",
        [Ok(s, "chart_type=") EXCEPT !.mem[ch.doc].charts[ch.sheet][ch.i].chart_type = ct])
chartSetTitle(s, ch, title) ==
    Call(s, "api.title",
        [Ok(s, "api.title") EXCEPT !.mem[ch.doc].charts[ch.sheet][ch.i].title = title.v])

\* xw.App(visible=False): a new host instance; app.quit() ends it
xwApp(s) ==
    Call(s, "App", [s EXCEPT !.log = Append(@, Entry("App", TRUE, NoExc)), !.apps = @ + 1])
appQuit(s) ==
    Call(s, "quit", [Ok(s, "quit") EXCEPT !.apps = @ - 1])

(***************************************************************************)
(* The handlers.  Each takes the state at the start of its try block and   *)
(* its keyword arguments `a`, and gives the state at its return with the   *)
(* result it returns.                                                      *)
(* The messages the source words in Chinese are given in English.          *)
(***************************************************************************)
\* the message of lines 56, 107, 143, 173, 205, 240 ("no workbook is open")
NoWorkbook == [success |-> FALSE, error |-> "no workbook is open"]

\* a handler that hides what the host said
ExceptClauseGeneric(e) == [success |-> FALSE, error |-> "operation failed"]

\* except Exception as e: return {"success": False, "error": str(e)}
ExceptClause(e) == [success |-> FALSE, error |-> e.msg]

\* a resolution that opens a document of its own choice when no path is given
ResolveOrOpen(s, file_path) ==
    xwBook(s, IF Truthy(file_path) THEN file_path ELSE PyStr("a.xlsx"))

\* `if file_path: wb = xw.Book(file_path) else: wb = xw.books.active`
Resolve(s, file_path) ==
    IF Truthy(file_path) THEN xwBook(s, file_path) ELSE booksActive(s)

\* `if wb is None: return {...}` on the branch without a path
NoneActive(s, file_path) == ~Truthy(file_path) /\ ~Pending(s) /\ s.ret = None

\* a handler that leaves the document it opened open, and one that saves it
\* before closing it
CloseNever(s, file_path, wb) == s
SaveAndClose(s, file_path, wb) ==
    IF Truthy(file_path) THEN wbClose(wbSave(s, wb), wb) ELSE s

\* a handler that closes whatever document it resolved
CloseAlways(s, file_path, wb) == wbClose(s, wb)

\* `if file_path: wb.close()`
CloseIfOpened(s, file_path, wb) ==
    IF Truthy(file_path) THEN wbClose(s, wb) ELSE s

\* the end of every handler: the early return, the except clause, or the result
Return(s1, file_path, s, result) ==
    IF NoneActive(s1, file_path) THEN [s |-> s1, result |-> NoWorkbook]
    ELSE IF Pending(s) THEN [s |-> s, result |-> ExceptClause(s.exc)]
    ELSE [s |-> s, result |-> result]

\* a normalisation that leaves every list as the host gave it
NormalizeScalars(data) ==
    IF IsList(data) THEN data ELSE PyList(<<PyList(<<data>>)>>)

\* a normalisation that forgets the bare scalar
NormalizeLists(data) ==
    IF IsList(data) /\ Truthy(data) /\ ~IsList(data.items[1]) THEN PyList(<<data>>) ELSE data

\* read_range, lines 64-69: a list stays (a flat non-empty one is wrapped
\* once), anything else becomes a 1x1 grid
Normalize(data) ==
    IF IsList(data)
    THEN IF Truthy(data) /\ ~IsList(data.items[1]) THEN PyList(<<data>>) ELSE data
    ELSE PyList(<<PyList(<<data>>)>>)

\* read_range, lines 61-71
ReadData(as_values, value) ==
    IF Truthy(as_values) THEN Normalize(value) ELSE PyStrOf(value)

read_range(s0, a) ==
    LET s1 == Resolve(s0, a.file_path)
        wb == s1.ret
        s2 == wbSheets(s1, wb, a.sheet)
        ws == s2.ret
        s3 == wsRange(s2, ws, a.range_addr)
        rng == s3.ret
        s4 == rngValue(s3, rng)
        s5 == objName(s4, wb)
        s6 == objName(s5, ws)
        s7 == rowsCount(s6, rng)
        s8 == columnsCount(s7, rng)
        result == [success |-> TRUE,
                   data |-> ReadData(a.as_values, s4.ret),
                   workbook |-> s5.ret,
                   sheet |-> s6.ret,
                   range |-> a.range_addr,
                   rows |-> s7.ret,
                   cols |-> s8.ret]
        s9 == CloseIfOpened(s8, a.file_path, wb)
    IN  Return(s1, a.file_path, s9, result)

\* f"... {ws.name}!{range_addr}"
At(name, addr) == name.v \o "!" \o (IF addr.t = "str" THEN addr.v ELSE Repr(addr))

\* a write that ignores its save flag, either way
SaveNever(s, save, wb) == s
SaveAlways(s, save, wb) == wbSave(s, wb)

\* `if save: wb.save()`
SaveIfAsked(s, save, wb) == IF Truthy(save) THEN wbSave(s, wb) ELSE s

write_range(s0, a) ==
    LET s1 == Resolve(s0, a.file_path)
        wb == s1.ret
        s2 == wbSheets(s1, wb, a.sheet)
        ws == s2.ret
        s3 == wsRange(s2, ws, a.range_addr)
        s4 == rngSetValue(s3, s3.ret, a.data)
        s5 == SaveIfAsked(s4, a.save, wb)
        s6 == objName(s5, ws)
        s7 == objName(s6, wb)
        s8 == objName(s7, ws)
        result == [success |-> TRUE,
                   message |-> "written " \o At(s6.ret, a.range_addr),
                   workbook |-> s7.ret,
                   sheet |-> s8.ret]
        s9 == CloseIfOpened(s8, a.file_path, wb)
    IN  Return(s1, a.file_path, s9, result)

\* `if args: macro(*args) else: macro()`
Passed(args) == IF Truthy(args) THEN args.items ELSE <<>>

run_macro(s0, a) ==
    LET s1 == Resolve(s0, a.file_path)
        wb == s1.ret
        s2 == wbMacro(s1, wb, a.macro_name)
        s3 == macroRun(s2, s2.ret, Passed(a.args))
        s4 == objName(s3, wb)
        result == [success |-> TRUE,
                   message |-> "macro " \o Repr(a.macro_name) \o " done",
                   return_value |-> s3.ret,
                   workbook |-> s4.ret]
        s5 == CloseIfOpened(s4, a.file_path, wb)
    IN  Return(s1, a.file_path, s5, result)

\* the loop of get_active_info, lines 176-183, from sheet i on
RECURSIVE SheetsInfo(_, _, _, _)
SheetsInfo(s, sheets, i, acc) ==
    IF Pending(s) \/ i > Len(sheets) THEN [s |-> s, info |-> acc]
    ELSE LET u1 == wsUsedRange(s, sheets[i])
             u == u1.ret
             u2 == objName(u1, sheets[i])
             u3 == usedAddress(u2, u)
             u4 == usedRowsCount(u3, u)
             u5 == usedColumnsCount(u4, u)
         IN  SheetsInfo(u5, sheets, i + 1,
                        Append(acc, [name |-> u2.ret, used_range |-> u3.ret,
                                     rows |-> u4.ret, cols |-> u5.ret]))

get_active_info(s0, a) ==
    LET s1 == booksActive(s0)
        wb == s1.ret
        s2 == wbSheetsIter(s1, wb)
        l == SheetsInfo(s2, s2.ret, 1, <<>>)
        s3 == objName(l.s, wb)
        s4 == wbFullname(s3, wb)
        s5 == wbSheetsActive(s4, wb)
        s6 == objName(s5, s5.ret)
        result == [success |-> TRUE,
                   workbook |-> s3.ret,
                   path |-> s4.ret,
                   sheets |-> l.info,
                   active_sheet |-> s6.ret]
    IN  Return(s1, None, s6, result)

\* a listing that stops after the first sheet
SheetNamesFirst(s, sheets, i, acc) ==
    IF Pending(s) \/ sheets = <<>> THEN [s |-> s, names |-> acc]
    ELSE LET u == objName(s, sheets[1])
         IN  [s |-> u, names |-> <<u.ret>>]

\* [ws.name for ws in wb.sheets], from sheet i on
RECURSIVE SheetNames(_, _, _, _)
SheetNames(s, sheets, i, acc) ==
    IF Pending(s) \/ i > Len(sheets) THEN [s |-> s, names |-> acc]
    ELSE LET u == objName(s, sheets[i])
         IN  SheetNames(u, sheets, i + 1, Append(acc, u.ret))

list_sheets(s0, a) ==
    LET s1 == Resolve(s0, a.file_path)
        wb == s1.ret
        s2 == wbSheetsIter(s1, wb)
        l == SheetNames(s2, s2.ret, 1, <<>>)
        s3 == objName(l.s, wb)
        result == [success |-> TRUE,
                   workbook |-> s3.ret,
                   sheets |-> PyList(l.names),
                   count |-> Len(l.names)]
        s4 == CloseIfOpened(s3, a.file_path, wb)
    IN  Return(s1, a.file_path, s4, result)

\* create_chart, lines 245-254: chart_types.get(chart_type, "line")
ChartTypes ==
    [line |-> "line", bar |-> "bar_clustered", column |-> "column_clustered",
     pie |-> "pie", scatter |-> "xy_scatter", area |-> "area"]
ChartTypeOf(chart_type) ==
    IF chart_type.t = "str" /\ chart_type.v \in DOMAIN ChartTypes
    THEN ChartTypes[chart_type.v] ELSE "line"

\* create_chart, line 272: the chart_type the result reports
ReportedChartType(chart_type) == chart_type

\* `if title: chart.api.HasTitle = True; chart.api.ChartTitle.Text = title`
TitleIfGiven(s, ch, title) == IF Truthy(title) THEN chartSetTitle(s, ch, title) ELSE s

create_chart(s0, a) ==
    LET s1 == Resolve(s0, a.file_path)
        wb == s1.ret
        s2 == wbSheets(s1, wb, a.sheet)
        ws == s2.ret
        ct == ChartTypeOf(a.chart_type)
        s3 == wsRange(s2, ws, a.position)
        s4 == rngLeft(s3, s3.ret)
        s5 == wsRange(s4, ws, a.position)
        s6 == rngTop(s5, s5.ret)
        s7 == chartsAdd(s6, ws)
        chart == s7.ret
        s8 == wsRange(s7, ws, a.data_range)
        s9 == chartSetSource(s8, chart, s8.ret)
        s10 == chartSetType(s9, chart, ct)
        s11 == TitleIfGiven(s10, chart, a.title)
        s12 == wbSave(s11, wb)
        s13 == objName(s12, ws)
        result == [success |-> TRUE,
                   message |-> "chart created at " \o At(s13.ret, a.position),
                   chart_type |-> ReportedChartType(a.chart_type),
                   data_range |-> a.data_range]
        s14 == CloseIfOpened(s13, a.file_path, wb)
    IN  Return(s1, a.file_path, s14, result)

(***************************************************************************)
(* main(): the command line, the dispatch and the printed result.          *)
(***************************************************************************)
\* The handlers' signatures: parameter names and defaults
Signature ==
    [read         |-> {"file_path", "sheet", "range_addr", "as_values"},
     write        |-> {"file_path", "sheet", "range_addr", "data", "save"},
     run_macro    |-> {"file_path", "macro_name", "args"},
     get_active   |-> {},
     list_sheets  |-> {"file_path"},
     create_chart |-> {"file_path", "sheet", "data_range", "chart_type", "title", "position"}]
Default ==
    [file_path |-> None, sheet |-> None, range_addr |-> PyStr("A1"),
     as_values |-> PyBool(TRUE), data |-> None, save |-> PyBool(TRUE),
     macro_name |-> PyStr(""), args |-> None, data_range |-> PyStr("A1:B10"),
     chart_type |-> PyStr("line"), title |-> PyStr(""), position |-> PyStr("E1")]
Operations == DOMAIN Signature

\* --params as json.loads sees it: absent or empty (no parse, {}), text that is
\* not JSON, JSON that is not an object, or an object (`bag`: key -> value)
NoParams == [kind |-> "missing", bag |-> <<>>]
Malformed == [kind |-> "malformed", bag |-> <<>>]
NonObject == [kind |-> "nonobject", bag |-> <<>>]
Object(bag) == [kind |-> "object", bag |-> bag]

\* op_func(**params) binds: params is a mapping whose keys the signature has
Binds(op, params) ==
    /\ params.kind \in {"missing", "object"}
    /\ DOMAIN params.bag \subseteq Signature[op]
KwArgs(op, params) ==
    [k \in Signature[op] |-> IF k \in DOMAIN params.bag THEN params.bag[k] ELSE Default[k]]

\* a bag from a choice per key, Absent meaning the key is left out
Bag(choice) == [k \in {k \in DOMAIN choice : choice[k] # Absent} |-> choice[k]]

JSONDecodeError == [type |-> "JSONDecodeError", msg |-> "Expecting value"]
TypeError == [type |-> "TypeError", msg |-> "unexpected keyword argument"]
ImportError == [type |-> "ModuleNotFoundError", msg |-> "No module named 'xlwings'"]

\* one run of main() ends: what it printed, what escaped it, what it did to the host
Exited(cmd, out, exc, s) ==
    /\ pc' = "exited"
    /\ argv' = cmd
    /\ stdout' = out
    /\ uncaught' = exc
    /\ log' = s.log
    /\ apps' = s.apps
    /\ books' = s.books
    /\ active' = s.active
    /\ mem' = s.mem
    /\ disk' = s.disk
    /\ UNCHANGED installed

Cmd(check, operation, params) == [check |-> check, operation |-> operation, params |-> params]

\* print(json.dumps(result, ensure_ascii=False, default=str)): one object
Printed(result) ==
    <<[k \in DOMAIN result |->
          IF k \in {"data", "return_value"} THEN JsonValue(result[k]) ELSE result[k]]>>

\* main(), lines 305-323, for a registered operation whose handler is entered
\* (`r`: the handler's return)
Dispatch(op, params, r) ==
    /\ pc = "idle"
    /\ installed
    /\ Binds(op, params)
    /\ Exited(Cmd(FALSE, PyStr(op), params), Printed(r.result), NoExc, r.s)

\* a capability check that takes the library for granted
LibraryAssumed == TRUE

\* check_xlwings(), lines 22-28
check_xlwings == installed

\* check_excel(), lines 30-39: start a host instance and quit it; any
\* exception means "not available"
check_excel(s0) ==
    LET s1 == xwApp(s0)
        s2 == appQuit(s1)
    IN  [s |-> s2, result |-> ~Pending(s2)]

(***************************************************************************)
(* The command lines and host behaviours the model draws from.             *)
(***************************************************************************)
PathArgs == {Absent, PyStr(""), PyStr("a.xlsx"), PyStr("missing.xlsx")}
SheetArgs == {Absent, PyStr("Data"), PyStr("Nope")}
RangeArgs == {Absent, PyStr("B2"), PyStr("A1:B1"), PyStr("A1:A2"), PyStr("A1:B2"), PyStr("??")}
WriteRangeArgs == {Absent, PyStr("A1:B2"), PyStr("??")}
ChartSheetArgs == {Absent, PyStr("Nope")}
FlagArgs == {Absent, PyBool(FALSE)}
X == PyStr("x")
Y == PyStr("y")
DataArgs == {Absent, X, PyList(<<PyList(<<X, Y>>)>>),
             PyList(<<PyList(<<X, Y>>), PyList(<<Y, X>>)>>),
             PyList(<<PyList(<<X>>), PyList(<<X, Y>>)>>)}
MacroArgs == {Absent, PyStr("Fill"), PyStr("Boom"), PyStr("Nope")}
ArgsArgs == {Absent, PyList(<<>>), PyList(<<X>>)}
ChartRangeArgs == {Absent, PyStr("A1:B2"), PyStr("??")}
ChartTypeArgs == {Absent, PyStr("bar"), PyStr("donut")}
TitleArgs == {Absent, PyStr("Totals")}
PositionArgs == {Absent, PyStr("??")}
OperationArgs == {None, PyStr("")} \cup {PyStr(op) : op \in Operations} \cup {PyStr("delete")}

\* a bag no handler binds: it holds the key "path"
BadBag == Object([path |-> PyStr("a.xlsx")])
AnyParams == {NoParams, Malformed, NonObject, BadBag}

ReadParams ==
    {NoParams} \cup
    {Object(Bag(c)) : c \in [file_path : PathArgs, sheet : SheetArgs,
                             range_addr : RangeArgs, as_values : FlagArgs]}
WriteParams ==
    {NoParams} \cup
    {Object(Bag(c)) : c \in [file_path : PathArgs, sheet : SheetArgs,
                             range_addr : WriteRangeArgs, data : DataArgs, save : FlagArgs]}
MacroParams ==
    {NoParams} \cup
    {Object(Bag(c)) : c \in [file_path : PathArgs, macro_name : MacroArgs, args : ArgsArgs]}
ListParams == {NoParams} \cup {Object(Bag(c)) : c \in [file_path : PathArgs]}
ChartParams ==
    {NoParams} \cup
    {Object(Bag(c)) : c \in [file_path : PathArgs, sheet : ChartSheetArgs,
                             data_range : ChartRangeArgs, chart_type : ChartTypeArgs,
                             title : TitleArgs, position : PositionArgs]}

ReadFaults == {"none", "Book", "sheets", "range", "value", "name", "rows.count",
               "columns.count", "close"}
WriteFaults == {"none", "Book", "sheets", "range", "value=", "save", "name", "close"}
MacroFaults == {"none", "Book", "macro", "macro()", "name", "close"}
ActiveFaults == {"none", "sheets", "used_range", "name", "address", "rows.count",
                 "columns.count", "fullname"}
ListFaults == {"none", "Book", "sheets", "name", "close"}
ChartFaults == {"none", "Book", "sheets", "range", "left", "top", "charts.add",
                "set_source_data", "chart_type=", "api.title", "save", "name", "close"}
CheckFaults == {"none", "App", "quit"}

(***************************************************************************)
(* The runs of main(), one action per path through it.                     *)
(***************************************************************************)
\* a run starts: the session has room for it, and a run in which a host call
\* is made to fail passes no key but those that decide which calls are made
Started == runs < MaxRuns /\ runs' = runs + 1
FaultKeys == {"file_path", "save", "macro_name", "title"}
Injects(params, fault, shape) ==
    fault = "none" \/ (DOMAIN params.bag \subseteq FaultKeys /\ shape = "native")

\* lines 292-298: --check
MainCheck ==
    /\ Started
    /\ pc = "idle"
    /\ apps < MaxApps
    /\ \E operation \in OperationArgs, params \in AnyParams, fault \in CheckFaults :
          LET s0 == Start(fault, "native")
              probe == IF check_xlwings THEN check_excel(s0) ELSE [s |-> s0, result |-> FALSE]
          IN  Exited(Cmd(TRUE, operation, params),
                     Printed([xlwings_available |-> check_xlwings,
                              excel_available |-> probe.result]),
                     NoExc, probe.s)
    /\ UNCHANGED rt

\* lines 300-302: no --operation
MainNoOperation ==
    /\ Started
    /\ pc = "idle"
    /\ \E operation \in {o \in OperationArgs : ~Truthy(o)}, params \in AnyParams :
          Exited(Cmd(FALSE, operation, params),
                 Printed([success |-> FALSE, error |-> "no operation given"]),
                 NoExc, Start("none", "native"))
    /\ UNCHANGED rt

\* line 305: json.loads raises on --params that is not JSON
MainBadJson ==
    /\ Started
    /\ pc = "idle"
    /\ \E operation \in {o \in OperationArgs : Truthy(o)} :
          Exited(Cmd(FALSE, operation, Malformed), <<>>, JSONDecodeError,
                 Start("none", "native"))
    /\ UNCHANGED rt

\* lines 317-320: the operation is not in the registry
MainUnknownOp ==
    /\ Started
    /\ pc = "idle"
    /\ \E operation \in {o \in OperationArgs : Truthy(o) /\ o.v \notin Operations},
          params \in AnyParams \ {Malformed} :
          Exited(Cmd(FALSE, operation, params),
                 Printed([success |-> FALSE, error |-> "unknown operation: " \o operation.v]),
                 NoExc, Start("none", "native"))
    /\ UNCHANGED rt

\* line 322: op_func(**params) cannot bind the bag to the handler's signature
MainBadCall ==
    /\ Started
    /\ pc = "idle"
    /\ \E op \in Operations, params \in {NonObject, BadBag} :
          /\ ~Binds(op, params)
          /\ Exited(Cmd(FALSE, PyStr(op), params), <<>>, TypeError, Start("none", "native"))
    /\ UNCHANGED rt

\* lines 48, 99, 135, 168, 197, 232: `import xlwings`, before the try block
MainNoLibrary ==
    /\ Started
    /\ pc = "idle"
    /\ ~installed
    /\ \E op \in Operations :
          Exited(Cmd(FALSE, PyStr(op), NoParams), <<>>, ImportError, Start("none", "native"))
    /\ UNCHANGED rt

MainRead ==
    /\ Started
    /\ \E params \in ReadParams, fault \in ReadFaults, shape \in Shapes :
           /\ Injects(params, fault, shape)
           /\ Dispatch("read", params,
                       read_range(Start(fault, shape), KwArgs("read", params)))
    /\ UNCHANGED rt

MainWrite ==
    /\ Started
    /\ \E params \in WriteParams, fault \in WriteFaults :
           /\ Injects(params, fault, "native")
           /\ Dispatch("write", params,
                       write_range(Start(fault, "native"), KwArgs("write", params)))
    /\ UNCHANGED rt

MainRunMacro ==
    /\ Started
    /\ \E params \in MacroParams, fault \in MacroFaults :
           /\ Injects(params, fault, "native")
           /\ Dispatch("run_macro", params,
                       run_macro(Start(fault, "native"), KwArgs("run_macro", params)))
    /\ UNCHANGED rt

MainGetActive ==
    /\ Started
    /\ \E fault \in ActiveFaults :
           Dispatch("get_active", NoParams,
                    get_active_info(Start(fault, "native"), KwArgs("get_active", NoParams)))
    /\ UNCHANGED rt

MainListSheets ==
    /\ Started
    /\ \E params \in ListParams, fault \in ListFaults :
           /\ Injects(params, fault, "native")
           /\ Dispatch("list_sheets", params,
                       list_sheets(Start(fault, "native"), KwArgs("list_sheets", params)))
    /\ UNCHANGED rt

MainCreateChart ==
    /\ Started
    /\ \E params \in ChartParams, fault \in ChartFaults :
           /\ Injects(params, fault, "native")
           /\ Dispatch("create_chart", params,
                       create_chart(Start(fault, "native"), KwArgs("create_chart", params)))
    /\ \A d \in books' : \A n \in DOMAIN mem'[d].charts : Len(mem'[d].charts[n]) <= MaxCharts
    /\ UNCHANGED rt

\* the process is gone; the host keeps its state
Exit ==
    /\ pc = "exited"
    /\ pc' = "idle"
    /\ argv' = Cmd(FALSE, None, NoParams)
    /\ stdout' = <<>>
    /\ uncaught' = NoExc
    /\ log' = <<>>
    /\ UNCHANGED <<hostVars, installed, runs, rt>>

Init ==
    /\ apps \in 0..1
    /\ books \in SUBSET Docs
    /\ books # {} => apps = 1
    /\ active \in books \cup {NoDoc}
    /\ active = NoDoc <=> books = {}
    /\ disk = [d \in Docs |-> InitContent(d)]
    /\ mem \in [Docs -> {Closed} \cup {c \in UNION {{disk[d], Edited(disk[d], d)} : d \in Docs} : TRUE}]
    /\ \A d \in Docs : IF d \in books THEN mem[d] \in {disk[d], Edited(disk[d], d)}
                                     ELSE mem[d] = Closed
    /\ installed \in BOOLEAN
    /\ pc = "idle"
    /\ argv = Cmd(FALSE, None, NoParams)
    /\ stdout = <<>>
    /\ uncaught = NoExc
    /\ log = <<>>
    /\ runs = 0
    /\ rt = [stage |-> 0, key |-> [k \in {} |-> Absent], P |-> None, P2 |-> None]

Next ==
    \/ MainCheck
    \/ MainNoOperation
    \/ MainBadJson
    \/ MainUnknownOp
    \/ MainBadCall
    \/ MainNoLibrary
    \/ MainRead
    \/ MainWrite
    \/ MainRunMacro
    \/ MainGetActive
    \/ MainListSheets
    \/ MainCreateChart
    \/ Exit

Spec == Init /\ [][Next]_vars

(***************************************************************************)
(* The round-trip session: three runs of main() in a row, a read, a write  *)
(* of the payload the read printed to the same range of the same sheet and *)
(* document, and the same read again.  A run that prints a failure ends    *)
(* the session.                                                            *)
(***************************************************************************)
RTPathArgs == {Absent, PyStr("a.xlsx")}
RTSheetArgs == {Absent, PyStr("Sheet1"), PyStr("Data")}
RTRangeArgs == {Absent, PyStr("B2"), PyStr("A1:B1"), PyStr("A1:B2")}
RTKeys == [file_path : RTPathArgs, sheet : RTSheetArgs, range_addr : RTRangeArgs]

RTOver == [stage |-> 4, key |-> [k \in {} |-> Absent], P |-> None, P2 |-> None]

\* --operation read --params '{...key...}' (as_values left at its default)
Read1 ==
    /\ rt.stage = 0
    /\ \E key \in RTKeys, shape \in Shapes :
          LET params == Object(Bag(key))
              r == read_range(Start("none", shape), KwArgs("read", params))
          IN  /\ Dispatch("read", params, r)
              /\ rt' = IF r.result.success
                       THEN [stage |-> 1, key |-> key, P |-> Printed(r.result)[1].data, P2 |-> None]
                       ELSE RTOver
    /\ UNCHANGED runs

\* --operation write --params '{...key..., "data": P}', with or without "save": false
WriteBack ==
    /\ rt.stage = 1
    /\ \E save \in FlagArgs :
          LET params == Object(Bag([file_path |-> rt.key.file_path, sheet |-> rt.key.sheet,
                                    range_addr |-> rt.key.range_addr, data |-> rt.P,
                                    save |-> save]))
              r == write_range(Start("none", "native"), KwArgs("write", params))
          IN  /\ Dispatch("write", params, r)
              /\ rt' = IF r.result.success THEN [rt EXCEPT !.stage = 2] ELSE RTOver
    /\ UNCHANGED runs

\* the first command line again
Read2 ==
    /\ rt.stage = 2
    /\ \E shape \in Shapes :
          LET params == Object(Bag(rt.key))
              r == read_range(Start("none", shape), KwArgs("read", params))
          IN  /\ Dispatch("read", params, r)
              /\ rt' = IF r.result.success
                       THEN [rt EXCEPT !.stage = 3, !.P2 = Printed(r.result)[1].data]
                       ELSE RTOver
    /\ UNCHANGED runs

NextRT ==
    \/ Read1
    \/ WriteBack
    \/ Read2
    \/ Exit

SpecRT == Init /\ [][NextRT]_vars

(***************************************************************************)
(* The normalisation of read_range on its own: the value the host hands    *)
(* over is any of the shapes a host gives for a range (a bare scalar, a    *)
(* flat sequence, empty or not, a block of rows), and read_range with      *)
(* as_values true turns it into the data it returns.                       *)
(***************************************************************************)
CellValues == {None, X, Y}
FlatValues == {PyList(q) : q \in UNION {[1..n -> CellValues] : n \in 0..MaxSide}}
RowsOfWidth(n) == {PyList(q) : q \in [1..n -> CellValues]}
BlockValues ==
    {PyList(q) : q \in UNION {[1..m -> RowsOfWidth(n)] : m \in 1..MaxSide, n \in 1..MaxSide}}
HostValues == CellValues \cup FlatValues \cup BlockValues

InitShape ==
    /\ apps = 0 /\ books = {} /\ active = NoDoc
    /\ disk = [d \in Docs |-> InitContent(d)]
    /\ mem = [d \in Docs |-> Closed]
    /\ installed = TRUE
    /\ pc = "idle"
    /\ argv = Cmd(FALSE, None, NoParams)
    /\ stdout = <<>>
    /\ uncaught = NoExc
    /\ log = <<>>
    /\ runs = 0
    /\ \E value \in HostValues :
          rt = [stage |-> 0, key |-> [k \in {} |-> Absent], P |-> value, P2 |-> None]

\* lines 61-69 applied to rng.value
Coerce ==
    /\ rt.stage = 0
    /\ rt' = [rt EXCEPT !.stage = 5, !.P2 = ReadData(PyBool(TRUE), rt.P)]
    /\ UNCHANGED <<hostVars, installed, runVars, runs>>

NextShape ==
    \/ Coerce

SpecShape == InitShape /\ [][NextShape]_vars

(***************************************************************************)
(* Vocabulary of the properties: the last run, seen from its final state.  *)
(***************************************************************************)
\* a handler was entered: a registered operation, a bag its signature binds,
\* the library importable
Ran ==
    /\ pc = "exited"
    /\ ~argv.check
    /\ Truthy(argv.operation)
    /\ argv.operation.v \in Operations
    /\ Binds(argv.operation.v, argv.params)
    /\ installed
Op == argv.operation.v
Arg(k) == KwArgs(Op, argv.params)[k]
GivenPath == "file_path" \in Signature[Op] /\ Truthy(Arg("file_path"))
Result == stdout[1]
Succeeded == Ran /\ Result.success
Called(c) == \E i \in 1..Len(log) : log[i].call = c
Before(c1, c2) ==
    \E i, j \in 1..Len(log) : i < j /\ log[i].call = c1 /\ log[j].call = c2
Failure(e) == <<[success |-> FALSE, error |-> e.msg]>>
PathOps == {"read", "write", "run_macro", "list_sheets", "create_chart"}

(***************************************************************************)
(* C1.  Every run of main() that ends has printed exactly one result       *)
(* object and let no exception escape, whatever the operation name, the    *)
(* parameter bag and the availability of the library.                      *)
(* Fails: a --params that is not JSON, a bag the handler's signature does  *)
(* not bind and a missing library each end the run with an uncaught        *)
(* exception and nothing printed.                                          *)
(***************************************************************************)
C1_OneResultNoFault ==
    pc = "exited" => Len(stdout) = 1 /\ uncaught = NoExc

(***************************************************************************)
(* C2.  A run of any of the six operations without a path (absent, or      *)
(* empty) issues no close call, and every document open in the host before *)
(* the run is open after it, on success and on failure.                    *)
(***************************************************************************)
C2_ActiveNeverClosed ==
    [][(Ran /\ ~GivenPath)' => (books \subseteq books' /\ ~Called("close")')]_vars

C2_Witness ==
    /\ Ran /\ ~GivenPath /\ Op = "write"
    /\ Result.success
    /\ active \in books
    /\ Called("value=")

(***************************************************************************)
(* C3.  As claimed: a handler given a path that returns success has closed *)
(* the document as its last host call, and write and create_chart have     *)
(* saved it before that close.                                             *)
(* Fails: write with save=false closes without any save.                   *)
(***************************************************************************)
ClosedLast ==
    /\ log # <<>>
    /\ log[Len(log)].call = "close"
    /\ log[Len(log)].exc = NoExc
    /\ Arg("file_path").v \notin books

C3_SavedThenClosed ==
    (Succeeded /\ Op \in PathOps /\ GivenPath) =>
        /\ ClosedLast
        /\ Op \in {"write", "create_chart"} => Before("save", "close")

(***************************************************************************)
(* C3, amended.  A handler given a path that returns success has closed    *)
(* the document as its last host call; create_chart, and write when its    *)
(* save flag is true, have saved it before that close; write with a false  *)
(* save flag, run_macro, read and list_sheets close it without any save.   *)
(***************************************************************************)
C3_Amended ==
    (Succeeded /\ Op \in PathOps /\ GivenPath) =>
        /\ ClosedLast
        /\ IF Op = "create_chart" \/ (Op = "write" /\ Truthy(Arg("save")))
           THEN Before("save", "close") /\ ~Before("close", "save")
           ELSE ~Called("save")

C3_Witness ==
    /\ Succeeded /\ Op = "write" /\ GivenPath /\ Truthy(Arg("save"))
    /\ Before("save", "close")
    /\ disk["a.xlsx"] # InitContent("a.xlsx")

(***************************************************************************)
(* C4.  A run of write with a false save flag leaves the contents of every *)
(* file on disk as they were before the run, whatever the path, sheet,     *)
(* range and data and whichever host call fails.                           *)
(***************************************************************************)
C4_UnsavedWriteKeepsDisk ==
    [][(Ran /\ Op = "write" /\ ~Truthy(Arg("save")))' => disk' = disk]_vars

C4_Witness ==
    /\ Succeeded /\ Op = "write" /\ ~Truthy(Arg("save"))
    /\ Called("value=")
    /\ \E d \in books : mem[d] # disk[d] /\ mem[d].cells[DocSheets(d)[1]][1][1] = X

(***************************************************************************)
(* C5.  As claimed: a successful read of a one-cell range returns a 1x1    *)
(* grid as its data, whatever the host's encoding and the as_values flag.  *)
(* Fails: with as_values false the data is a string.                       *)
(***************************************************************************)
OneCell(addr) == addr.t = "str" /\ ValidAddr(addr.v) /\ RowsOf(addr.v) = 1 /\ ColsOf(addr.v) = 1
IsGrid1x1(d) ==
    /\ IsList(d) /\ Len(d.items) = 1
    /\ IsList(d.items[1]) /\ Len(d.items[1].items) = 1
    /\ ~IsList(d.items[1].items[1])

C5_OneCellIsGrid ==
    (Succeeded /\ Op = "read" /\ OneCell(Arg("range_addr"))) => IsGrid1x1(Result.data)

(***************************************************************************)
(* C5, amended.  A successful read of a one-cell range with a true         *)
(* as_values flag returns a 1x1 grid as its data, whatever encoding the    *)
(* host uses for the cell; with a false flag the data is a string.         *)
(***************************************************************************)
C5_Amended ==
    (Succeeded /\ Op = "read" /\ OneCell(Arg("range_addr"))) =>
        IF Truthy(Arg("as_values")) THEN IsGrid1x1(Result.data) ELSE Result.data.t = "str"

C5_Witness ==
    /\ Succeeded /\ Op = "read" /\ Arg("range_addr") = PyStr("B2")
    /\ Truthy(Arg("as_values"))
    /\ Result.data = PyList(<<PyList(<<PyStr("2024-01-02 00:00:00")>>)>>)

(***************************************************************************)
(* C7.  A successful create_chart whose chart_type is none of line, bar,   *)
(* column, pie, scatter, area reports "line" as its chart_type.            *)
(* Fails: the chart is given the type "line", but the result reports the   *)
(* chart_type argument as it was passed.                                   *)
(***************************************************************************)
Unrecognized(chart_type) == ~(chart_type.t = "str" /\ chart_type.v \in DOMAIN ChartTypes)

C7_ReportsLine ==
    (Succeeded /\ Op = "create_chart" /\ Unrecognized(Arg("chart_type"))) =>
        Result.chart_type = PyStr("line")

(***************************************************************************)
(* C8.  With no document open in the host and no path given, each of the   *)
(* six handlers returns the no-workbook failure, having asked the host for *)
(* its active document and nothing else: no document is opened, changed,   *)
(* saved or closed, and nothing is raised.                                 *)
(***************************************************************************)
C8_NoActiveDocument ==
    [][(books = {} /\ (Ran /\ ~GivenPath)') =>
           /\ stdout' = <<NoWorkbook>>
           /\ uncaught' = NoExc
           /\ Len(log') = 1 /\ log'[1].call = "books.active"
           /\ UNCHANGED hostVars]_vars

C8_Witness ==
    /\ Ran /\ ~GivenPath /\ Op = "create_chart"
    /\ stdout = <<NoWorkbook>>
    /\ books = {}

(***************************************************************************)
(* C9.  When a host call made by a handler raises, the handler makes no    *)
(* further host call and returns the failure result whose error is the     *)
(* message of that exception; run_macro with a macro name the host does    *)
(* not know is such a case.                                                *)
(***************************************************************************)
KnownMacros == {PyStr("Fill"), PyStr("Boom")}

C9_HostMessageVerbatim ==
    Ran =>
        /\ \A i \in 1..Len(log) :
               log[i].exc # NoExc => i = Len(log) /\ stdout = Failure(log[i].exc)
        /\ (Op = "run_macro" /\ Arg("macro_name") \notin KnownMacros /\ Called("macro()")) =>
               log[Len(log)].exc # NoExc

C9_Witness ==
    /\ Ran /\ Op = "run_macro" /\ Arg("macro_name") = PyStr("Nope")
    /\ stdout = Failure(NoSuchMacro)

(***************************************************************************)
(* C10.  A host application instance is started only by the call that      *)
(* opens a document from a path.                                           *)
(* Fails: the capability check starts an instance of its own (and quits    *)
(* it) to see whether the host can be reached.                             *)
(***************************************************************************)
C10_LaunchOnlyByOpen ==
    \A i \in 1..Len(log) : log[i].launch => log[i].call = "Book"

(***************************************************************************)
(* C6.  Round trip: when a read of a 1x1, 1xN or MxN range has printed the *)
(* payload P, a write of P to the same range of the same sheet and         *)
(* document has succeeded and the same read has succeeded again, the       *)
(* second read printed P.                                                  *)
(* Fails: for a document given by path that is open in the host with an    *)
(* unsaved edit, the first read returns the edited cells and its close     *)
(* drops them; a write with save=false is closed unsaved, and the second   *)
(* read returns the cells of the file.                                     *)
(***************************************************************************)
C6_RoundTrip == rt.stage = 3 => rt.P2 = rt.P

(***************************************************************************)
(* C11.  A run with --check executes no handler, whatever --operation and  *)
(* --params come with it: it prints the two availability flags and         *)
(* nothing else, raises nothing, makes no host call but the probe's (App,  *)
(* quit) and leaves every document as it was; when the library cannot be   *)
(* imported both flags are false and no host call is made at all.          *)
(***************************************************************************)
CheckResult(x, e) == <<[xlwings_available |-> x, excel_available |-> e]>>

C11_CheckRunsNoHandler ==
    [][(pc' = "exited" /\ argv'.check) =>
           /\ \E e \in BOOLEAN : stdout' = CheckResult(installed, e)
           /\ uncaught' = NoExc
           /\ \A i \in 1..Len(log') : log'[i].call \in {"App", "quit"}
           /\ UNCHANGED <<books, active, mem, disk>>
           /\ ~installed => (stdout' = CheckResult(FALSE, FALSE) /\ log' = <<>> /\ apps' = apps)]_vars

C11_Witness ==
    /\ pc = "exited" /\ argv.check /\ ~installed
    /\ argv.operation = PyStr("write") /\ argv.params = BadBag
    /\ stdout = CheckResult(FALSE, FALSE)
    /\ books # {}

(***************************************************************************)
(* C12.  Every object a run prints has a boolean field success; with       *)
(* success false it carries an error string, with success true it carries  *)
(* no error field.                                                         *)
(* Fails: the object a --check run prints has the two availability flags   *)
(* and no success field.                                                   *)
(***************************************************************************)
C12_SuccessField ==
    \A i \in 1..Len(stdout) :
        /\ "success" \in DOMAIN stdout[i]
        /\ stdout[i].success \in BOOLEAN
        /\ IF stdout[i].success THEN "error" \notin DOMAIN stdout[i]
           ELSE "error" \in DOMAIN stdout[i]

(***************************************************************************)
(* C13.  A read, write or create_chart that names a sheet the resolved     *)
(* document does not have returns the host's sheet-not-found failure; it   *)
(* assigns no value, adds no chart and saves nothing: the file and the     *)
(* cells and charts of the document in the host are as before.             *)
(***************************************************************************)
SheetOps == {"read", "write", "create_chart"}

C13_NoSuchSheet ==
    [][LET d == IF GivenPath' THEN Arg("file_path")'.v ELSE active
       IN  (/\ (Ran /\ Op \in SheetOps)'
            /\ d \in Docs
            /\ Truthy(Arg("sheet")')
            /\ Arg("sheet")'.v \notin Seq2Set(DocSheets(d))) =>
               /\ stdout' = Failure(SheetNotFound)
               /\ ~Called("value=")' /\ ~Called("charts.add")' /\ ~Called("save")'
               /\ disk' = disk
               /\ d \in books'
               /\ mem'[d] = IF d \in books THEN mem[d] ELSE disk[d]]_vars

C13_Witness ==
    /\ Ran /\ Op = "write" /\ Arg("sheet") = PyStr("Nope") /\ GivenPath
    /\ Arg("data") = X
    /\ stdout = Failure(SheetNotFound)
    /\ Arg("file_path").v \in books

(***************************************************************************)
(* C14.  A run whose --operation is none of the six registered names       *)
(* prints the failure naming that operation, raises nothing and makes no   *)
(* host call.                                                              *)
(* Fails: --params is parsed before the operation is looked up, so with a  *)
(* --params that is not JSON the run ends in an uncaught exception and     *)
(* prints nothing.                                                         *)
(***************************************************************************)
C14_UnknownOperation ==
    (/\ pc = "exited" /\ ~argv.check
     /\ Truthy(argv.operation) /\ argv.operation.v \notin Operations) =>
        /\ stdout = Failure([msg |-> "unknown operation: " \o argv.operation.v])
        /\ uncaught = NoExc
        /\ log = <<>>

(***************************************************************************)
(* C15.  A successful list_sheets returns the names of the sheets of the   *)
(* resolved document, each once and in the document's own order, and       *)
(* count is the length of that list.                                       *)
(***************************************************************************)
C15_SheetsInOrder ==
    [][LET d == IF GivenPath' THEN Arg("file_path")'.v ELSE active
       IN  (Succeeded /\ Op = "list_sheets")' =>
               /\ Result'.sheets = PyList([i \in 1..Len(DocSheets(d)) |-> PyStr(DocSheets(d)[i])])
               /\ Result'.count = Len(DocSheets(d))
               /\ Result'.workbook = PyStr(d)]_vars

C15_Witness ==
    /\ Succeeded /\ Op = "list_sheets" /\ ~GivenPath
    /\ active = "b.xlsx"
    /\ Result.sheets = PyList(<<PyStr("Data"), PyStr("Sheet1")>>)
    /\ Result.count = 2

(***************************************************************************)
(* C16.  With as_values true, whatever shape the host gives for the range  *)
(* (a bare scalar, a flat sequence, the empty one included, a block of     *)
(* rows), the data read_range returns is a list of lists that all have     *)
(* the same length.                                                        *)
(***************************************************************************)
IsGrid(d) ==
    /\ IsList(d)
    /\ \A i \in 1..Len(d.items) :
          /\ IsList(d.items[i])
          /\ Len(d.items[i].items) = Len(d.items[1].items)

C16_AlwaysGrid == rt.stage = 5 => IsGrid(rt.P2)

C16_Witness ==
    /\ rt.stage = 5
    /\ rt.P = PyList(<<X, None>>)
    /\ rt.P2 = PyList(<<PyList(<<X, None>>)>>)

(***************************************************************************)
(* C17.  When a handler has opened a document from a path: if it returns   *)
(* success, its last host call is the close and the document is no longer  *)
(* open; if a later host call raises, that call is the last one it makes,  *)
(* no close has gone through, the result is a failure and the document is  *)
(* still open in the host.                                                 *)
(***************************************************************************)
OpenedFromPath ==
    /\ Ran /\ Op \in PathOps /\ GivenPath
    /\ log # <<>> /\ log[1].call = "Book" /\ log[1].exc = NoExc

C17_CloseOnSuccessOnly ==
    OpenedFromPath =>
        IF Result.success
        THEN ClosedLast /\ \A i \in 1..Len(log) : log[i].exc = NoExc
        ELSE /\ log[Len(log)].exc # NoExc
             /\ \A i \in 1..(Len(log) - 1) : log[i].exc = NoExc /\ log[i].call # "close"
             /\ Arg("file_path").v \in books

C17_Witness ==
    /\ OpenedFromPath /\ Op = "create_chart"
    /\ ~Result.success
    /\ log[Len(log)].call = "save"
    /\ Arg("file_path").v \in books

(***************************************************************************)
(* C18.  A write or create_chart that returns a failure has left every     *)
(* file on disk as it was before the run.                                  *)
(* Fails: the handler saves before it reads the names for its result and   *)
(* before it closes; when one of those later calls raises, the failure is  *)
(* returned with the file already rewritten.                               *)
(***************************************************************************)
C18_FailureKeepsDisk ==
    [][(Ran /\ Op \in {"write", "create_chart"} /\ ~Result.success)' => disk' = disk]_vars

(***************************************************************************)
(* C19.  In a successful read with as_values true the data has as many     *)
(* rows as the rows field says and every row is as long as the cols field  *)
(* says.                                                                   *)
(* Fails: the host gives a flat sequence for a single column, which the    *)
(* normalisation wraps as one row: a range of 2 rows and 1 column is       *)
(* returned as one row of two values with rows 2 and cols 1.               *)
(***************************************************************************)
C19_DataMatchesCounts ==
    (Succeeded /\ Op = "read" /\ Truthy(Arg("as_values"))) =>
        /\ Len(Result.data.items) = Result.rows
        /\ \A i \in 1..Len(Result.data.items) : Len(Result.data.items[i].items) = Result.cols

(***************************************************************************)
(* C20.  A run of read, list_sheets or get_active makes no save call and   *)
(* leaves every file on disk, and the cells, charts and sheets of every    *)
(* document open after it, as they were (as on disk for a document the run *)
(* opened and a failure left open); get_active makes no call that opens    *)
(* or closes a document, and the same documents are open after it.         *)
(***************************************************************************)
ReadOnlyOps == {"read", "list_sheets", "get_active"}
Mutating == {"value=", "save", "macro()", "charts.add", "set_source_data", "chart_type=", "api.title"}

====
